---- MODULE Spec2Model ----
(***************************************************************************)
(* Model of the Streamlit front end of scraipe-st (src/scraipe_st/app.py): *)
(* the component-configuration loop, the workflow object kept in the       *)
(* session and the two run sections.  One render cycle is one run of       *)
(* App.main: configure_component_loop("Scraper"), then                     *)
(* configure_component_loop("Analyzer"), then run_scrape_section and       *)
(* run_analyze_section.  The two run sections are fragments, a click on    *)
(* their button reruns the fragment alone.                                 *)
(***************************************************************************)
EXTENDS Integers, Sequences, FiniteSets, TLC

\* ---------------------------------------------------------------- bounds
MaxBuilt == 2           \* components constructed for one provider in a session
MaxLinks == 2           \* length of the edited link list

\* ------------------------------------------------------------- vocabulary
Comps == {"Scraper", "Analyzer"}
Configs == {"cfg1", "cfg2"}
NoSubmit == "NoSubmit"          \* pydantic_form returned None
NoConfig == "NoConfig"          \* session_state.get(config_key, None) is None
READY == "READY"
NOT_READY == "NOT_READY"
NoStatus == "None"
NoComponent == <<0, 0>>         \* Python None in a component position

\* The registry filled by register_default_components: the first scraper,
\* and the first two analyzers, one without a configuration schema and one
\* with a schema and a default configuration.
ScraperProviders ==
    << [name |-> "Text Scraper", schema |-> FALSE, default |-> NoConfig] >>

AnalyzerProviders ==
    << [name |-> "Text Stats Analyzer", schema |-> FALSE, default |-> NoConfig],
       [name |-> "OpenAI Analyzer", schema |-> TRUE, default |-> "default_openai_config"] >>

provider_options(comp) == IF comp = "Scraper" THEN ScraperProviders ELSE AnalyzerProviders

\* comp_key = f"{comp}_{metadata.name}"; NoKey before the first return.
CompKey_role_only(comp, name) == <<comp, "any">>
CompKey(comp, name) == <<comp, name>>
NoKey == <<"", "">>
Keys == UNION { {CompKey(c, provider_options(c)[i].name) : i \in DOMAIN provider_options(c)} : c \in Comps }

\* Values found under a comp_key of st.session_state.
Absent == [kind |-> "absent", component |-> NoComponent, status |-> NoStatus]
NoneValue == [kind |-> "none", component |-> NoComponent, status |-> NoStatus]
Pair(c, s) == [kind |-> "pair", component |-> c, status |-> s]
NonePair == Pair(NoComponent, NoStatus)

VARIABLES
    selected,       \* value of the f"{comp}_selectbox" widget, per role
    submitted,      \* pending form submission per role, NoSubmit if none
    session,        \* st.session_state[comp_key], per key
    configs,        \* st.session_state[config_key], per key
    built,          \* per key, the number of components constructed so far
    ready,          \* per key, the state of the component constructed last,
                    \* which its status is computed from
    keys,           \* scraper_key / analyzer_key returned by the loops
    workflow,       \* st.session_state["workflow"]
    links_df,       \* st.session_state["links_df"]
    scrapes_df,     \* st.session_state["scrapes_df"]
    analysis_df,    \* st.session_state["analysis_df"]
    widgets,        \* widgets on screen that accept input
    pc,             \* position of the script in the render cycle
    escaped,        \* exception that ended the render cycle, "none" if none
    loop,           \* per role, what the last run of the loop did
    run             \* per stage, what the last run did

vars == <<selected, submitted, session, configs, built, ready, keys, workflow,
          links_df, scrapes_df, analysis_df, widgets, pc, escaped, loop, run>>

\* ------------------------------------------------------ component provider
\* ComponentStatus computed by provider.get_component_status(component) from
\* the current state of the component.
get_component_status(comp_key, component, rdy) ==
    IF component # NoComponent /\ rdy[comp_key] THEN READY ELSE NOT_READY

\* Outcomes of provider.get_component_and_status(config): it raises, or it
\* returns (component, status) with a newly constructed component.
Outcomes == {"raise", "ready", "not_ready"}

\* pydantic_form(..., config or provider.get_default_config() or schema)
FormInitial(config, provider) ==
    IF config # NoConfig THEN config
    ELSE IF provider.default # NoConfig THEN provider.default
    ELSE "schema"

\* st.session_state[comp_key] = None in the except branch of the submission
FailedSlotValue == NoneValue

\* `if config is not None:`, a submission was made in this run of the script
IsSubmission_every_render(config) == TRUE
IsSubmission(config) == config # NoSubmit

\* `if st.session_state.get(comp_key) is None:` of the branch without schema
NeedsImmediate_always(value) == TRUE
NeedsImmediate(value) == value.kind \in {"absent", "none"}

\* `if status == ComponentStatus.READY: st.session_state[comp_key] = (component, status)`
PersistStatus(value, component, status) ==
    IF status = READY THEN Pair(component, status) ELSE value

\* `provider.late_update(component)` is called on every run of the loop,
\* whatever status the slot holds.
CallsLateUpdate_unless_ready(status_before) == status_before # READY
CallsLateUpdate(status_before) == TRUE

NoForm == [key |-> NoKey, initial |-> NoConfig]
NoLoop == [key |-> NoKey, ran |-> FALSE, selection_changed |-> FALSE,
           before |-> Absent, config_before |-> NoConfig, submission |-> NoSubmit,
           calls |-> <<>>, form |-> NoForm,
           instantiation |-> "none", component |-> NoComponent,
           status |-> NoStatus, completed |-> FALSE]

\* configure_component_loop(comp, provider_options) as a function of the
\* state it reads, the outcome of get_component_and_status (if invoked) and
\* whether late_update completes the component's setup.
LoopResult(comp, outcome, advance) ==
    LET provider == provider_options(comp)[selected[comp]]
        comp_key == CompKey(comp, provider.name)
        before == session[comp_key]
        config == submitted[comp]
        base == [NoLoop EXCEPT !.key = comp_key, !.ran = TRUE,
                               !.selection_changed = (loop[comp].key # comp_key),
                               !.before = before,
                               !.config_before = configs[comp_key],
                               !.submission = config]
        made == Pair(<<selected[comp], built[comp_key] + 1>>,
                     IF outcome = "ready" THEN READY ELSE NOT_READY)
        unpackFails222 == provider.schema /\ before.kind = "none"
        invoked ==
            IF provider.schema THEN ~unpackFails222 /\ IsSubmission(config)
            ELSE NeedsImmediate(before)
        raised == invoked /\ outcome = "raise"
        returned == invoked /\ outcome # "raise"
        \* session state after the instantiation step
        s1 == IF returned THEN [session EXCEPT ![comp_key] = made]
              ELSE IF raised /\ provider.schema
                   THEN [session EXCEPT ![comp_key] = FailedSlotValue]
              ELSE session
        c1 == IF returned /\ provider.schema
              THEN [configs EXCEPT ![comp_key] = config] ELSE configs
        b1 == IF returned THEN [built EXCEPT ![comp_key] = @ + 1] ELSE built
        r1 == IF returned THEN [ready EXCEPT ![comp_key] = (outcome = "ready")]
              ELSE ready
        form == IF provider.schema /\ ~unpackFails222
                THEN [key |-> comp_key, initial |-> FormInitial(configs[comp_key], provider)]
                ELSE NoForm
        inst == IF ~invoked THEN "none"
                ELSE IF provider.schema
                     THEN (IF raised THEN "submit_raised" ELSE "submit_returned")
                ELSE (IF raised THEN "immediate_raised" ELSE "immediate_returned")
        calls1 == IF invoked THEN <<"get_component_and_status">> ELSE <<>>
        unpackFails250 == s1[comp_key].kind = "none"
        component == s1[comp_key].component
        late == CallsLateUpdate(s1[comp_key].status)
        r2 == IF late /\ component # NoComponent /\ advance
              THEN [r1 EXCEPT ![comp_key] = TRUE] ELSE r1
        status == get_component_status(comp_key, component, r2)
    IN  IF unpackFails222 \/ (raised /\ ~provider.schema) \/ unpackFails250
        THEN [session |-> s1, configs |-> c1, built |-> b1, ready |-> r1,
              escaped |-> IF raised /\ ~provider.schema THEN "Exception" ELSE "TypeError",
              returned_key |-> keys[comp],
              loop |-> [base EXCEPT !.calls = calls1, !.form = form,
                                    !.instantiation = inst]]
        ELSE [session |-> [s1 EXCEPT ![comp_key] = PersistStatus(s1[comp_key], component, status)],
              configs |-> c1, built |-> b1, ready |-> r2,
              escaped |-> "none",
              returned_key |-> comp_key,
              loop |-> [base EXCEPT !.calls = calls1 \o (IF late THEN <<"late_update">> ELSE <<>>)
                                                    \o <<"get_component_status">>,
                                    !.form = form, !.instantiation = inst,
                                    !.component = component, !.status = status,
                                    !.completed = TRUE]]

\* ----------------------------------------------------------------- workflow
\* scraipe.Workflow: the scraper and analyzer properties and the two result
\* stores.  Rows are kept in processing order.
Workflow(scraper, analyzer) ==
    [exists |-> TRUE, scraper |-> scraper, analyzer |-> analyzer,
     scrapes |-> <<>>, analyses |-> <<>>]
NoWorkflow == [exists |-> FALSE, scraper |-> NoComponent, analyzer |-> NoComponent,
               scrapes |-> <<>>, analyses |-> <<>>]

\* App.get_workflow(scraper=None, analyzer=None)
get_workflow_create_only(wf, scraper, analyzer) ==
    IF ~wf.exists THEN Workflow(scraper, analyzer) ELSE wf
get_workflow(wf, scraper, analyzer) ==
    LET w0 == IF ~wf.exists THEN Workflow(scraper, analyzer) ELSE wf
        w1 == IF scraper # NoComponent THEN [w0 EXCEPT !.scraper = scraper] ELSE w0
    IN  IF analyzer # NoComponent THEN [w1 EXCEPT !.analyzer = analyzer] ELSE w1

Row(link, ok) == [link |-> link, success |-> ok, error |-> IF ok THEN "" ELSE "error"]

\* The results scrape_generator / analyze_generator yields, one per item in
\* processing order; an item that fails yields a result that carries the error.
Results(items, ok) == [i \in 1..Len(items) |-> Row(items[i], ok[i])]

\* The store of a stage after `taken` results were drawn from the generator:
\* with overwrite the prior results of the stage are discarded, otherwise the
\* new results are appended.
Stored(prior, results, taken, overwrite) ==
    (IF overwrite THEN <<>> ELSE prior) \o SubSeq(results, 1, taken)

\* ------------------------------------------------------------- run sections
\* can_run = status is not None and status == ComponentStatus.READY
can_run_any_status(status) == status # NoStatus
can_run(status) == status # NoStatus /\ status = READY

\* `for result in workflow.scrape_generator(...)`: the loop body has no break,
\* every result of the generator is drawn.
FirstFailure(results) ==
    IF \E i \in 1..Len(results) : ~results[i].success
    THEN CHOOSE i \in 1..Len(results) :
            ~results[i].success /\ \A j \in 1..(i - 1) : results[j].success
    ELSE Len(results)
Drawn_until_failure(results) == FirstFailure(results)
Drawn(results) == Len(results)

\* bar.progress(acc/total) followed by acc += 1, acc starting at 0: the value
\* reported in the i-th iteration, as <<numerator, denominator>>.
ProgressReport(i, total) == <<i - 1, total>>
Bar(n, total) == [i \in 1..n |-> ProgressReport(i, total)]

\* st.session_state["scrapes_df"] = df, st.session_state["analysis_df"] = ...
StoredTable_appended(old, df) == old \o df
StoredTable(old, df) == df

NoRun == [started |-> FALSE, status |-> NoStatus, component |-> NoComponent,
          items |-> <<>>, ok |-> <<>>, before |-> 0, bar |-> <<>>]

Selectbox(comp) == comp \o "_selectbox"
Form(comp) == comp \o "_form"

\* The link lists the data editor can hold: the n-th row holds link n.
LinkLists == {[i \in 1..n |-> i] : n \in 0..MaxLinks}

\* get_default_links(), the initial content of the data editor
DefaultLinks == <<1>>

\* -------------------------------------------------------------------- state
Init ==
    /\ selected = [c \in Comps |-> 1]
    /\ submitted = [c \in Comps |-> NoSubmit]
    /\ session = [k \in Keys |-> Absent]
    /\ configs = [k \in Keys |-> NoConfig]
    /\ built = [k \in Keys |-> 0]
    /\ ready = [k \in Keys |-> FALSE]
    /\ keys = [c \in Comps |-> NoKey]
    /\ workflow = NoWorkflow
    /\ links_df = DefaultLinks
    /\ scrapes_df = <<>>
    /\ analysis_df = <<>>
    /\ widgets = {}
    /\ pc = "top"
    /\ escaped = "none"
    /\ loop = [c \in Comps |-> NoLoop]
    /\ run = [s \in {"scrape", "analyze"} |-> NoRun]

\* ------------------------------------------------------------- user actions
\* The user picks another provider in the selectbox of a role: the script
\* reruns from the top.
SelectProvider(comp, i) ==
    /\ pc \in {"idle", "crashed"}
    /\ Selectbox(comp) \in widgets
    /\ i # selected[comp]
    /\ selected' = [selected EXCEPT ![comp] = i]
    /\ submitted' = [c \in Comps |-> NoSubmit]
    /\ pc' = "top"
    /\ UNCHANGED <<session, configs, built, ready, keys, workflow, links_df,
                   scrapes_df, analysis_df, widgets, escaped, loop, run>>

\* The user presses Configure on the form on screen: the script reruns and
\* pydantic_form returns the submitted configuration once.
SubmitForm(comp, config) ==
    /\ pc \in {"idle", "crashed"}
    /\ Form(comp) \in widgets
    /\ submitted' = [submitted EXCEPT ![comp] = config]
    /\ pc' = "top"
    /\ UNCHANGED <<selected, session, configs, built, ready, keys, workflow,
                   links_df, scrapes_df, analysis_df, widgets, escaped, loop, run>>

\* The user reruns the script (Streamlit's Rerun command) with no widget changed.
Rerun ==
    /\ pc \in {"idle", "crashed"}
    /\ submitted' = [c \in Comps |-> NoSubmit]
    /\ pc' = "top"
    /\ UNCHANGED <<selected, session, configs, built, ready, keys, workflow, links_df,
                   scrapes_df, analysis_df, widgets, escaped, loop, run>>

\* links_fragment: the data editor's content becomes st.session_state["links_df"].
LinksFragment(edited) ==
    /\ pc = "idle"
    /\ edited # links_df
    /\ links_df' = edited
    /\ UNCHANGED <<selected, submitted, session, configs, built, ready, keys,
                   workflow, scrapes_df, analysis_df, widgets, pc, escaped, loop, run>>

\* The state a component's status is computed from changes outside the
\* script: a login expires, an endpoint goes away.  (The opposite change is
\* what late_update and get_component_and_status observe.)
ComponentStateChange(k) ==
    /\ pc = "idle"
    /\ session[k].component # NoComponent
    /\ ready[k]
    /\ ready' = [ready EXCEPT ![k] = FALSE]
    /\ UNCHANGED <<selected, submitted, session, configs, built, keys, workflow,
                   links_df, scrapes_df, analysis_df, widgets, pc, escaped, loop, run>>

\* ------------------------------------------------------------ render cycle
ConfigureComponentLoop(comp) ==
    /\ pc = (IF comp = "Scraper" THEN "top" ELSE "analyzer")
    /\ \E outcome \in Outcomes, advance \in BOOLEAN :
        /\ \E r \in {LoopResult(comp, outcome, advance)} :
               /\ session' = r.session
               /\ configs' = r.configs
               /\ ready' = r.ready
               /\ built' = r.built
               /\ \A k \in Keys : r.built[k] <= MaxBuilt
               /\ escaped' = r.escaped
               /\ keys' = [keys EXCEPT ![comp] = r.returned_key]
               /\ loop' = [c \in Comps |->
                            IF c = comp THEN r.loop
                            ELSE IF comp = "Scraper" THEN [NoLoop EXCEPT !.key = loop[c].key]
                            ELSE loop[c]]
               /\ widgets' = (IF comp = "Scraper" THEN {} ELSE widgets)
                                \cup {Selectbox(comp)}
                                \cup (IF r.loop.form # NoForm THEN {Form(comp)} ELSE {})
               /\ pc' = IF r.escaped # "none" THEN "crashed"
                        ELSE IF comp = "Scraper" THEN "analyzer" ELSE "scrape_section"
    /\ submitted' = [submitted EXCEPT ![comp] = NoSubmit]
    /\ run' = IF comp = "Scraper" THEN [s \in {"scrape", "analyze"} |-> NoRun] ELSE run
    /\ UNCHANGED <<selected, workflow, links_df, scrapes_df, analysis_df>>

\* run_scrape_section; `clicked` is the value st.button returns.
run_scrape_section(clicked, ok, next) ==
    LET value == session[keys["Scraper"]]
        scraper == value.component
        status == value.status
        wf == get_workflow(workflow, scraper, NoComponent)
        enabled == can_run(status)
        links == links_df
        results == Results(links, ok)
        taken == Drawn(results)
        cleared == [wf EXCEPT !.scrapes = <<>>]
        after == [cleared EXCEPT !.scrapes = Stored(cleared.scrapes, results, taken, TRUE)]
    IN  IF value.kind = "none"
        THEN /\ pc' = "crashed"
             /\ escaped' = "TypeError"
             /\ UNCHANGED <<workflow, scrapes_df, run, widgets>>
        ELSE /\ pc' = next
             /\ escaped' = escaped
             /\ widgets' = (widgets \ {"run_scrape"})
                              \cup (IF enabled THEN {"run_scrape"} ELSE {})
             /\ IF clicked
                THEN /\ workflow' = after
                     /\ scrapes_df' = StoredTable(scrapes_df, after.scrapes)
                     /\ run' = [run EXCEPT !["scrape"] =
                                  [started |-> TRUE, status |-> status,
                                   component |-> wf.scraper,
                                   items |-> links, ok |-> SubSeq(ok, 1, Len(links)),
                                   before |-> Len(scrapes_df),
                                   bar |-> Bar(taken, Len(links))]]
                ELSE /\ workflow' = wf
                     /\ UNCHANGED <<scrapes_df, run>>

RenderScrapeSection ==
    /\ pc = "scrape_section"
    /\ run_scrape_section(FALSE, <<>>, "analyze_section")
    /\ UNCHANGED <<selected, submitted, session, configs, built, ready, keys,
                   links_df, analysis_df, loop>>

\* A click on the Scrape button reruns the fragment; a disabled button cannot
\* be clicked.
ClickScrape ==
    /\ pc = "idle"
    /\ "run_scrape" \in widgets
    /\ \E ok \in [1..MaxLinks -> BOOLEAN] :
          run_scrape_section(TRUE, ok, "idle")
    /\ UNCHANGED <<selected, submitted, session, configs, built, ready, keys,
                   links_df, analysis_df, loop>>

\* run_analyze_section
run_analyze_section(clicked, ok, next) ==
    LET value == session[keys["Analyzer"]]
        analyzer == value.component
        status == value.status
        wf == get_workflow(workflow, NoComponent, analyzer)
        enabled == can_run(status)
        cleared == [wf EXCEPT !.analyses = <<>>]
        scrapes_length == Len(cleared.scrapes)
        items == [i \in 1..scrapes_length |-> cleared.scrapes[i].link]
        results == Results(items, ok)
        taken == Drawn(results)
        after == [cleared EXCEPT !.analyses = Stored(cleared.analyses, results, taken, TRUE)]
    IN  IF value.kind = "none"
        THEN /\ pc' = "crashed"
             /\ escaped' = "TypeError"
             /\ UNCHANGED <<workflow, analysis_df, run, widgets>>
        ELSE /\ pc' = next
             /\ escaped' = escaped
             /\ widgets' = (widgets \ {"run_analyze"})
                              \cup (IF enabled THEN {"run_analyze"} ELSE {})
             /\ IF clicked
                THEN /\ workflow' = after
                     /\ analysis_df' = StoredTable(analysis_df, after.analyses)
                     /\ run' = [run EXCEPT !["analyze"] =
                                  [started |-> TRUE, status |-> status,
                                   component |-> wf.analyzer,
                                   items |-> items, ok |-> SubSeq(ok, 1, scrapes_length),
                                   before |-> Len(analysis_df),
                                   bar |-> Bar(taken, scrapes_length)]]
                ELSE /\ workflow' = wf
                     /\ UNCHANGED <<analysis_df, run>>

\* The last section of the script: the render cycle ends here, and with it
\* the record of what the loops did in it.
RenderAnalyzeSection ==
    /\ pc = "analyze_section"
    /\ run_analyze_section(FALSE, <<>>, "idle")
    /\ loop' = [c \in Comps |-> [NoLoop EXCEPT !.key = loop[c].key]]
    /\ UNCHANGED <<selected, submitted, session, configs, built, ready, keys,
                   links_df, scrapes_df>>

ClickAnalyze ==
    /\ pc = "idle"
    /\ "run_analyze" \in widgets
    /\ \E ok \in [1..MaxLinks -> BOOLEAN] :
          run_analyze_section(TRUE, ok, "idle")
    /\ UNCHANGED <<selected, submitted, session, configs, built, ready, keys,
                   links_df, scrapes_df, loop>>

Next ==
    \/ \E comp \in Comps : \E i \in DOMAIN provider_options(comp) : SelectProvider(comp, i)
    \/ \E comp \in Comps, config \in Configs : SubmitForm(comp, config)
    \/ Rerun
    \/ \E edited \in LinkLists : LinksFragment(edited)
    \/ \E k \in Keys : ComponentStateChange(k)
    \/ ConfigureComponentLoop("Scraper")
    \/ ConfigureComponentLoop("Analyzer")
    \/ RenderScrapeSection
    \/ ClickScrape
    \/ RenderAnalyzeSection
    \/ ClickAnalyze

Spec == Init /\ [][Next]_vars

\* Sessions in which the link list keeps its initial content: every action
\* but the edit of the links.
NextLifecycle ==
    \/ \E comp \in Comps : \E i \in DOMAIN provider_options(comp) : SelectProvider(comp, i)
    \/ \E comp \in Comps, config \in Configs : SubmitForm(comp, config)
    \/ Rerun
    \/ \E k \in Keys : ComponentStateChange(k)
    \/ ConfigureComponentLoop("Scraper")
    \/ ConfigureComponentLoop("Analyzer")
    \/ RenderScrapeSection
    \/ ClickScrape
    \/ RenderAnalyzeSection
    \/ ClickAnalyze

SpecLifecycle == Init /\ [][NextLifecycle]_vars

\* Sessions in which the user leaves the configuration widgets alone (the
\* providers selected by default stay selected): the link edits, the reruns
\* and the runs.
NextRun ==
    \/ Rerun
    \/ \E edited \in LinkLists : LinksFragment(edited)
    \/ ConfigureComponentLoop("Scraper")
    \/ ConfigureComponentLoop("Analyzer")
    \/ RenderScrapeSection
    \/ ClickScrape
    \/ RenderAnalyzeSection
    \/ ClickAnalyze

SpecRun == Init /\ [][NextRun]_vars

\* ------------------------------------------------------------------ claims
Stages == {"scrape", "analyze"}
SelectedProvider(comp) == provider_options(comp)[selected[comp]]
SelectedKey(comp) == CompKey(comp, SelectedProvider(comp).name)
ProviderOf(comp, key) ==
    CHOOSE p \in {provider_options(comp)[i] : i \in DOMAIN provider_options(comp)} :
        CompKey(comp, p.name) = key
RoleOf(stage) == IF stage = "scrape" THEN "Scraper" ELSE "Analyzer"
ButtonOf(stage) == IF stage = "scrape" THEN "run_scrape" ELSE "run_analyze"
TableOf(stage) == IF stage = "scrape" THEN scrapes_df ELSE analysis_df
Count(calls, name) == Cardinality({i \in 1..Len(calls) : calls[i] = name})

C1_WitnessDisabled ==
    /\ pc = "idle"
    /\ session[SelectedKey("Analyzer")].status = NOT_READY
    /\ "run_analyze" \notin widgets

\* C2: after a submission on which get_component_and_status raised, the slot
\* holds (None, None) and no exception has escaped the render cycle.
C2_FailedSubmissionLeavesNonePair ==
    \A comp \in Comps :
        loop[comp].instantiation = "submit_raised" =>
            /\ session[loop[comp].key] = NonePair
            /\ escaped = "none"

\* C3: an exception raised by get_component_and_status, on the submission
\* path or on the immediate path of a provider without schema, does not
\* escape the render cycle, and the slot is left as (None, None).
C3_InstantiationErrorsAreCaught ==
    \A comp \in Comps :
        loop[comp].instantiation \in {"submit_raised", "immediate_raised"} =>
            /\ pc # "crashed"
            /\ escaped = "none"
            /\ session[loop[comp].key] = NonePair

\* C4 as stated: in the first run of the loop after a provider without schema
\* is selected, get_component_and_status(None) is invoked.
C4_InvokedOnEverySelection ==
    \A comp \in Comps :
        (loop[comp].ran /\ ~ProviderOf(comp, loop[comp].key).schema
            /\ loop[comp].selection_changed) =>
                Count(loop[comp].calls, "get_component_and_status") = 1

\* C4 as amended: for a provider without schema, a run of the loop invokes
\* get_component_and_status(None) exactly when nothing is stored under the
\* provider's key, once at most; a component is constructed for the key once
\* in the session at most, also over re-selections; no form is rendered.
C4_InvokedOnlyWhileNothingStored ==
    \A comp \in Comps :
        \A i \in DOMAIN provider_options(comp) :
            LET p == provider_options(comp)[i]
                key == CompKey(comp, p.name)
            IN  ~p.schema =>
                    /\ built[key] <= 1
                    /\ (loop[comp].ran /\ loop[comp].key = key) =>
                        /\ Count(loop[comp].calls, "get_component_and_status")
                              = (IF loop[comp].before.kind = "absent" THEN 1 ELSE 0)
                        /\ loop[comp].form = NoForm

C4_Witness ==
    /\ loop["Analyzer"].ran
    /\ loop["Analyzer"].completed
    /\ ~ProviderOf("Analyzer", loop["Analyzer"].key).schema
    /\ loop["Analyzer"].selection_changed
    /\ loop["Analyzer"].before.kind = "pair"
    /\ Count(loop["Analyzer"].calls, "get_component_and_status") = 0

\* C5: after a scrape run over N links the table stored in the session has a
\* row per link, in the order of the links, each with the outcome of its
\* item: a failed item has success false and an error, and the loop has
\* iterated N times.
C5_FailedItemDoesNotAbortBatch ==
    run["scrape"].started =>
        LET N == Len(run["scrape"].items)
        IN  /\ Len(run["scrape"].bar) = N
            /\ Len(scrapes_df) = N
            /\ \A k \in 1..N :
                /\ scrapes_df[k].link = run["scrape"].items[k]
                /\ scrapes_df[k].success = run["scrape"].ok[k]
                /\ ~run["scrape"].ok[k] => scrapes_df[k].error # ""

C5_Witness ==
    /\ run["scrape"].started
    /\ Len(run["scrape"].items) = 2
    /\ run["scrape"].ok = <<FALSE, TRUE>>
    /\ Len(scrapes_df) = 2

\* C6: the table of a stage has as many rows as the last run of the stage had
\* items, whatever number of rows it had before the run.
C6_TableHoldsLastRunOnly ==
    \A stage \in Stages :
        run[stage].started =>
            /\ Len(TableOf(stage)) = Len(run[stage].items)
            /\ \A k \in 1..Len(TableOf(stage)) :
                  TableOf(stage)[k].link = run[stage].items[k]
            /\ (run[stage].before > 0 /\ Len(run[stage].items) > 0) =>
                  Len(TableOf(stage)) # run[stage].before + Len(run[stage].items)

C6_Witness ==
    /\ run["scrape"].started
    /\ run["scrape"].before = 1
    /\ Len(run["scrape"].items) = 2
    /\ run["analyze"].started
    /\ run["analyze"].before = 2
    /\ Len(run["analyze"].items) = 1

\* C7: the i-th progress value reported in a run over N items is i/N.
C7_ProgressIsCompletedOverTotal ==
    \A stage \in Stages :
        run[stage].started =>
            \A i \in 1..Len(run[stage].bar) :
                run[stage].bar[i][1] * Len(run[stage].items) = i * run[stage].bar[i][2]

\* C8: after a run of the loop with a component in the slot, the slot holds
\* (component, status) with the status computed in that run.
C8_PersistedStatusIsRecomputed ==
    \A comp \in Comps :
        (loop[comp].completed /\ loop[comp].component # NoComponent) =>
            session[loop[comp].key] = Pair(loop[comp].component, loop[comp].status)

\* C9: a run of the loop with a component in the slot calls late_update once,
\* whatever the stored status, and then get_component_status once.
C9_LateUpdateOnceBeforeStatus ==
    \A comp \in Comps :
        (loop[comp].completed /\ loop[comp].component # NoComponent) =>
            LET calls == loop[comp].calls
                n == Len(calls)
            IN  /\ n >= 2
                /\ calls[n] = "get_component_status"
                /\ calls[n - 1] = "late_update"
                /\ Count(calls, "late_update") = 1
                /\ Count(calls, "get_component_status") = 1

C9_Witness ==
    /\ loop["Analyzer"].completed
    /\ loop["Analyzer"].component # NoComponent
    /\ loop["Analyzer"].before.status = READY
    /\ loop["Analyzer"].instantiation = "none"
    /\ loop["Analyzer"].calls = <<"late_update", "get_component_status">>

\* C10: for a provider with a schema, get_component_and_status is invoked
\* only in a run of the loop with a submission; without a submission the saved
\* configuration and the component of the slot stay as they were; the form
\* starts from the saved configuration, or from the provider's default when
\* none is saved.
C10_InstantiationOnlyOnSubmission ==
    \A comp \in Comps :
        (loop[comp].ran /\ ProviderOf(comp, loop[comp].key).schema) =>
            LET key == loop[comp].key
                l == loop[comp]
            IN  /\ Count(l.calls, "get_component_and_status") > 0 =>
                    l.submission \in Configs
                /\ l.submission = NoSubmit =>
                    /\ configs[key] = l.config_before
                    /\ session[key].component = l.before.component
                    /\ session[key].kind = l.before.kind
                /\ l.form # NoForm =>
                    l.form.initial = (IF l.config_before \in Configs THEN l.config_before
                                      ELSE ProviderOf(comp, key).default)

C10_Witness ==
    /\ loop["Analyzer"].completed
    /\ ProviderOf("Analyzer", loop["Analyzer"].key).schema
    /\ loop["Analyzer"].submission = NoSubmit
    /\ loop["Analyzer"].before.component # NoComponent
    /\ loop["Analyzer"].config_before = "cfg2"
    /\ loop["Analyzer"].form.initial = "cfg2"
    /\ built[loop["Analyzer"].key] = 2

\* C11 as stated: the first run of the loop after a provider is selected
\* finds nothing stored under the provider's key, no component, no status
\* and no saved configuration.
C11_SelectionResetsSlot ==
    \A comp \in Comps :
        (loop[comp].ran /\ loop[comp].selection_changed) =>
            /\ loop[comp].before.kind = "absent"
            /\ loop[comp].config_before = NoConfig

\* C11 as amended: a selection resets nothing.  What is stored under a
\* provider's key stays stored while other providers are selected: once a
\* component was constructed for the key the key is never absent again and,
\* for a provider with a schema, its configuration stays saved; the run of
\* the loop after a selection finds the key as it was left.  A component
\* stored under a provider's key was constructed by that provider, the last
\* one it constructed.
C11_SelectionKeepsStoredState ==
    \A comp \in Comps :
        \A i \in DOMAIN provider_options(comp) :
            LET p == provider_options(comp)[i]
                key == CompKey(comp, p.name)
                l == loop[comp]
                built_before ==
                    IF l.instantiation \in {"submit_returned", "immediate_returned"}
                    THEN built[key] - 1 ELSE built[key]
            IN  /\ built[key] > 0 =>
                    /\ session[key].kind \in {"pair", "none"}
                    /\ p.schema => configs[key] \in Configs
                /\ session[key].kind = "pair" =>
                    session[key].component = <<i, built[key]>>
                /\ (l.ran /\ l.key = key /\ l.selection_changed) =>
                    /\ l.before.kind = "absent" => built_before = 0
                    /\ built_before > 0 =>
                        /\ l.before.kind # "absent"
                        /\ p.schema => l.config_before \in Configs
                    /\ l.before.kind = "pair" =>
                        l.before.component = <<i, built_before>>

C11_Witness ==
    /\ loop["Analyzer"].ran
    /\ loop["Analyzer"].completed
    /\ loop["Analyzer"].selection_changed
    /\ ProviderOf("Analyzer", loop["Analyzer"].key).schema
    /\ loop["Analyzer"].before.kind = "pair"
    /\ loop["Analyzer"].config_before \in Configs
    /\ loop["Analyzer"].form.initial = loop["Analyzer"].config_before
    /\ loop["Analyzer"].component = loop["Analyzer"].before.component

WorkflowComponent(stage) ==
    IF stage = "scrape" THEN workflow.scraper ELSE workflow.analyzer

\* C12: when a scrape (analysis) run starts, the scraper (analyzer) of the
\* workflow is the component stored in the selected scraper (analyzer) slot,
\* the last one constructed by the selected provider.
C12_RunUsesSelectedComponent ==
    \A stage \in Stages :
        (pc = "idle" /\ run[stage].started) =>
            LET comp == RoleOf(stage)
                key == SelectedKey(comp)
            IN  /\ run[stage].component # NoComponent
                /\ run[stage].component = session[key].component
                /\ run[stage].component = <<selected[comp], built[key]>>
                /\ WorkflowComponent(stage) = run[stage].component

C12_Witness ==
    /\ pc = "idle"
    /\ run["analyze"].started
    /\ selected["Analyzer"] = 2
    /\ built[SelectedKey("Analyzer")] = 2
    /\ built[CompKey("Analyzer", AnalyzerProviders[1].name)] = 1
    /\ run["analyze"].component = <<2, 2>>
====
